---- MODULE Spec2Model ----
(***************************************************************************)
(* Element Snapper: the capture jobs of the service worker                 *)
(* (src/background/service_worker.js) and the part of the content script   *)
(* (src/content/content-main.js) they talk to.                             *)
(*                                                                         *)
(* Units.  A CSS length is an integer number of QUARTER CSS pixels, so     *)
(* that the fractional rectangles getBoundingClientRect returns can be     *)
(* written down (rect.width = 16384.25 px is 65537).  devicePixelRatio is  *)
(* kept as twice its value (1, 1.5, 2, 3 are 2, 3, 4, 6).  The product     *)
(* "css * dpr" is therefore a number of EIGHTHS of a physical pixel, and   *)
(* Math.floor / Math.ceil / Math.round take such a product to whole        *)
(* physical pixels.  Physical lengths (canvas and frame sizes, sx, dx,     *)
(* cumulativeY, ...) are whole physical pixels.                            *)
(***************************************************************************)
EXTENDS Integers, Naturals, Sequences, FiniteSets, TLC

VARIABLES
    data,      \* data[j]: the message data of job j
    settings,  \* chrome.storage.local: the settings the handlers read
    page,      \* the page the content script lives in: scroll position, sizes,
               \* overflow styles, scrollbarState, debug border; lastToggle
               \* is the last scrollbar message the content script handled
    frame,     \* physical size of the frame captureVisibleTab returns
    js,        \* js[j]: position and locals of job j in the service worker
    hist,      \* hist[j]: what job j has done so far (requests issued, tiles)
    popup,     \* the popup window: currentState, the capture button, the
               \* pending setTimeout callbacks, the request it awaits
    inbox      \* inbox[m]: a message the content script's onMessage listener
               \* received, how far its handling is, the responses sent

vars == <<data, settings, page, frame, js, hist, popup, inbox>>

JobIds == {1, 2}

(***************************************************************************)
(* JavaScript arithmetic                                                   *)
(***************************************************************************)
\* css * dpr, in eighths of a physical pixel
Times(css, dpr) == css * dpr

\* Math.floor of a number of eighths
MathFloor(e) == e \div 8

\* Math.ceil of a number of eighths
MathCeil(e) == -((-e) \div 8)

\* Math.round of a number of eighths: floor(x + 0.5), halves go up
MathRound(e) == (e + 4) \div 8

\* Math.ceil(a / b) for two CSS lengths, b > 0
CeilDiv(a, b) == -((-a) \div b)

Min(a, b) == IF a <= b THEN a ELSE b

Max(a, b) == IF a >= b THEN a ELSE b

\* a whole number of CSS pixels, in quarter pixels
Px(n) == 4 * n

Pt(px, py) == [x |-> px, y |-> py]

Size(w, h) == [width |-> w, height |-> h]

Rect(px, py, w, h) == [x |-> px, y |-> py, width |-> w, height |-> h]

(***************************************************************************)
(* Geometry of the capture functions.  d is the message data of a job.     *)
(* captureFullElement and captureFullPage are the same loop over two       *)
(* regions: the element's box, and the whole document at origin (0,0).     *)
(***************************************************************************)
MAX_DIMENSION == 16384

\* captureFullElement: elementAbsX = scroll.x + rect.x
ElementAbsX(d) == d.scroll.x + d.rect.x

ElementAbsY(d) == d.scroll.y + d.rect.y

\* the region a job captures: rect (element), documentDimensions (full page)
RegionWidth(d) ==
    IF d.kind = "fullpage" THEN d.documentDimensions.width ELSE d.rect.width

RegionHeight(d) ==
    IF d.kind = "fullpage" THEN d.documentDimensions.height ELSE d.rect.height

RegionOriginX(d) == IF d.kind = "fullpage" THEN 0 ELSE ElementAbsX(d)

RegionOriginY(d) == IF d.kind = "fullpage" THEN 0 ELSE ElementAbsY(d)

\* tilesX = Math.ceil(rect.width / viewport.width)
TilesX(d) == CeilDiv(RegionWidth(d), d.viewport.width)

TilesY(d) == CeilDiv(RegionHeight(d), d.viewport.height)

\* finalWidth = Math.round(rect.width * dpr), also physicalWidth of the crop
\* the width rounded up, as the tiles' widths are
FinalWidthCeil(d) == MathCeil(Times(RegionWidth(d), d.dpr))

FinalWidth(d) == MathRound(Times(RegionWidth(d), d.dpr))

FinalHeight(d) == MathRound(Times(RegionHeight(d), d.dpr))

\* a ceiling check that looks at the width alone
TooLargeWidthOnly(d) == FinalWidth(d) > MAX_DIMENSION

\* if (finalWidth > MAX_DIMENSION || finalHeight > MAX_DIMENSION) throw
TooLarge(d) == FinalWidth(d) > MAX_DIMENSION \/ FinalHeight(d) > MAX_DIMENSION

\* cropImageToElement: if (rect.width <= 0 || rect.height <= 0) throw
ZeroDimensions(d) == d.rect.width <= 0 \/ d.rect.height <= 0

\* the tiled capture for every element once the fullCapture setting is on
NeedsMultiCaptureAlways(d, fullCapture) == fullCapture

\* needsMultiCapture = fullCapture && (rect wider or higher than the viewport)
NeedsMultiCapture(d, fullCapture) ==
    fullCapture /\ (d.rect.width > d.viewport.width
                    \/ d.rect.height > d.viewport.height)

\* a scroll target one viewport too far: the right edge of the tile's region
TargetScrollXNextTile(d, tileX) ==
    RegionOriginX(d) + (tileX + 1) * d.viewport.width

\* targetScrollX = elementAbsX + tileX * viewport.width (= regionAbsX)
TargetScrollX(d, tileX) == RegionOriginX(d) + tileX * d.viewport.width

TargetScrollY(d, tileY) == RegionOriginY(d) + tileY * d.viewport.height

RegionAbsX(d, tileX) == RegionOriginX(d) + tileX * d.viewport.width

RegionAbsY(d, tileY) == RegionOriginY(d) + tileY * d.viewport.height

\* every tile as wide as the viewport, the last one of a row too
VisibleWidthFull(d, tileX) == d.viewport.width

\* visibleWidth = Math.min(viewport.width, rect.width - tileX * viewport.width)
VisibleWidth(d, tileX) ==
    Min(d.viewport.width, RegionWidth(d) - tileX * d.viewport.width)

VisibleHeight(d, tileY) ==
    Min(d.viewport.height, RegionHeight(d) - tileY * d.viewport.height)

\* rowHeightPhysical = Math.ceil(rowHeight * dpr)
RowHeightPhysical(d, tileY) == MathCeil(Times(VisibleHeight(d, tileY), d.dpr))

\* the offset as it would be were the requested scroll position reached
ViewportOffsetXFromTarget(d, tileX, actual) ==
    RegionAbsX(d, tileX) - TargetScrollX(d, tileX)

\* viewportOffsetX = regionAbsX - actualScrollX
ViewportOffsetX(d, tileX, actual) == RegionAbsX(d, tileX) - actual.x

ViewportOffsetY(d, tileY, actual) == RegionAbsY(d, tileY) - actual.y

\* the source offset rounded up
TileSxCeil(d, tileX, actual) ==
    MathCeil(Times(ViewportOffsetX(d, tileX, actual), d.dpr))

\* sx = Math.floor(viewportOffsetX * dpr)
TileSx(d, tileX, actual) ==
    MathFloor(Times(ViewportOffsetX(d, tileX, actual), d.dpr))

TileSy(d, tileY, actual) ==
    MathFloor(Times(ViewportOffsetY(d, tileY, actual), d.dpr))

\* the tile width rounded down
TileWidthPhysicalFloor(d, tileX) ==
    MathFloor(Times(VisibleWidth(d, tileX), d.dpr))

\* sWidth = dWidth = Math.ceil(visibleWidth * dpr)
TileWidthPhysical(d, tileX) == MathCeil(Times(VisibleWidth(d, tileX), d.dpr))

TileHeightPhysical(d, tileY) == MathCeil(Times(VisibleHeight(d, tileY), d.dpr))

\* dx = Math.floor(tileX * viewport.width * dpr)
TileDx(d, tileX) == MathFloor(Times(tileX * d.viewport.width, d.dpr))

\* cumulativeY when row r starts: "cumulativeY += rowHeightPhysical" has run
\* for the rows before it
RECURSIVE CumulativeYAt(_, _)
CumulativeYAt(d, r) ==
    IF r <= 0 THEN 0
    ELSE CumulativeYAt(d, r - 1) + RowHeightPhysical(d, r - 1)

\* a tile drawn without the bounds check: the computed source rectangle goes
\* to drawImage as it is
TileUnclamped(d, tileX, tileY, actual, cumulativeY, img) ==
    LET sx == TileSx(d, tileX, actual)
        sy == TileSy(d, tileY, actual)
        sWidth == TileWidthPhysical(d, tileX)
        sHeight == TileHeightPhysical(d, tileY)
    IN  [tileX |-> tileX, tileY |-> tileY,
         target |-> Pt(TargetScrollX(d, tileX), TargetScrollY(d, tileY)),
         actual |-> actual,
         sx |-> sx, sy |-> sy, sWidth |-> sWidth, sHeight |-> sHeight,
         dx |-> TileDx(d, tileX), dy |-> cumulativeY,
         dWidth |-> sWidth, dHeight |-> sHeight,
         drawn |-> "full", src |-> Rect(sx, sy, sWidth, sHeight)]

\* a tile whose bounds branch clamps as cropImageToElement does,
\* clampedSX = Math.max(0, sx), so that nothing is left of a rectangle that
\* starts beyond the frame
TileClampedAsCrop(d, tileX, tileY, actual, cumulativeY, img) ==
    LET sx == TileSx(d, tileX, actual)
        sy == TileSy(d, tileY, actual)
        sWidth == TileWidthPhysical(d, tileX)
        sHeight == TileHeightPhysical(d, tileY)
        inside == sx >= 0 /\ sy >= 0 /\ sx + sWidth <= img.width
                  /\ sy + sHeight <= img.height
        clampedSX == Max(0, sx)
        clampedSY == Max(0, sy)
        clampedWidth == Min(sWidth, img.width - clampedSX)
        clampedHeight == Min(sHeight, img.height - clampedSY)
    IN  [tileX |-> tileX, tileY |-> tileY,
         target |-> Pt(TargetScrollX(d, tileX), TargetScrollY(d, tileY)),
         actual |-> actual,
         sx |-> sx, sy |-> sy, sWidth |-> sWidth, sHeight |-> sHeight,
         dx |-> TileDx(d, tileX), dy |-> cumulativeY,
         dWidth |-> TileWidthPhysical(d, tileX),
         dHeight |-> TileHeightPhysical(d, tileY),
         drawn |-> IF inside THEN "full"
                   ELSE IF clampedWidth > 0 /\ clampedHeight > 0
                        THEN "clamped" ELSE "skipped",
         src |-> IF inside THEN Rect(sx, sy, sWidth, sHeight)
                 ELSE Rect(clampedSX, clampedSY, clampedWidth, clampedHeight)]

\* The tile as it is put on the final canvas: the source rectangle of the
\* frame img (clamped when it leaves the frame), the destination rectangle,
\* and how it was drawn.  cumulativeY is the loop's accumulator.
Tile(d, tileX, tileY, actual, cumulativeY, img) ==
    LET sx == TileSx(d, tileX, actual)
        sy == TileSy(d, tileY, actual)
        sWidth == TileWidthPhysical(d, tileX)
        sHeight == TileHeightPhysical(d, tileY)
        inside == sx >= 0 /\ sy >= 0 /\ sx + sWidth <= img.width
                  /\ sy + sHeight <= img.height
        clampedSX == Max(0, Min(sx, img.width - 1))
        clampedSY == Max(0, Min(sy, img.height - 1))
        clampedWidth == Min(sWidth, img.width - clampedSX)
        clampedHeight == Min(sHeight, img.height - clampedSY)
    IN  [tileX |-> tileX, tileY |-> tileY,
         target |-> Pt(TargetScrollX(d, tileX), TargetScrollY(d, tileY)),
         actual |-> actual,
         sx |-> sx, sy |-> sy, sWidth |-> sWidth, sHeight |-> sHeight,
         dx |-> TileDx(d, tileX), dy |-> cumulativeY,
         dWidth |-> TileWidthPhysical(d, tileX),
         dHeight |-> TileHeightPhysical(d, tileY),
         drawn |-> IF inside THEN "full"
                   ELSE IF clampedWidth > 0 /\ clampedHeight > 0
                        THEN "clamped" ELSE "skipped",
         src |-> IF inside THEN Rect(sx, sy, sWidth, sHeight)
                 ELSE Rect(clampedSX, clampedSY, clampedWidth, clampedHeight)]

\* the loop with the row's destination Y computed from the row number,
\* Math.floor(tileY * viewport.height * dpr), instead of accumulated
LoopFromNaiveY(d, tileX, tileY, cumulativeY) ==
    LET wrap == tileX >= TilesX(d)
        y == IF wrap THEN tileY + 1 ELSE tileY
    IN  [tileX |-> IF wrap THEN 0 ELSE tileX, tileY |-> y,
         cumulativeY |-> MathFloor(Times(y * d.viewport.height, d.dpr)),
         done |-> y >= TilesY(d) \/ TilesX(d) = 0]

\* the two loops nested the other way round, "for tileX { for tileY }": the
\* tile after (tileX - 1, tileY) is the one below it, or the top of the next
\* column
LoopFromColumnMajor(d, tileX, tileY, cumulativeY) ==
    LET at(x, y, done) == [tileX |-> x, tileY |-> y,
                           cumulativeY |-> cumulativeY, done |-> done]
    IN  IF TilesX(d) = 0 \/ TilesY(d) = 0 THEN at(tileX, tileY, TRUE)
        ELSE IF tileX = 0 THEN at(0, 0, FALSE)
        ELSE IF tileY + 1 < TilesY(d) THEN at(tileX - 1, tileY + 1, FALSE)
        ELSE IF tileX < TilesX(d) THEN at(tileX, 0, FALSE)
        ELSE at(tileX, tileY, TRUE)

\* The loop "for tileY { rowHeight; for tileX { tile }; cumulativeY +=
\* rowHeightPhysical }" from position (tileX, tileY): the next tile to
\* capture, or done.
RECURSIVE LoopFrom(_, _, _, _)
LoopFrom(d, tileX, tileY, cumulativeY) ==
    IF tileY >= TilesY(d)
    THEN [tileX |-> tileX, tileY |-> tileY, cumulativeY |-> cumulativeY,
          done |-> TRUE]
    ELSE IF tileX >= TilesX(d)
         THEN LoopFrom(d, 0, tileY + 1,
                       cumulativeY + RowHeightPhysical(d, tileY))
         ELSE [tileX |-> tileX, tileY |-> tileY,
               cumulativeY |-> cumulativeY, done |-> FALSE]

\* cropImageToElement: sx = Math.round(rect.x * dpr), sWidth = physicalWidth;
\* the source rectangle, and the clamp that decides "completely outside"
Crop(d, img) ==
    LET sx == MathRound(Times(d.rect.x, d.dpr))
        sy == MathRound(Times(d.rect.y, d.dpr))
        sWidth == FinalWidth(d)
        sHeight == FinalHeight(d)
        outside == sx < 0 \/ sy < 0 \/ sx + sWidth > img.width
                   \/ sy + sHeight > img.height
        clampedSX == Max(0, sx)
        clampedSY == Max(0, sy)
        clampedWidth == Min(sWidth, img.width - clampedSX)
        clampedHeight == Min(sHeight, img.height - clampedSY)
    IN  [sx |-> sx, sy |-> sy, sWidth |-> sWidth, sHeight |-> sHeight,
         dx |-> 0, dy |-> 0, dWidth |-> sWidth, dHeight |-> sHeight,
         partlyOutside |-> outside,
         completelyOutside |->
             outside /\ (clampedWidth <= 0 \/ clampedHeight <= 0)]

(***************************************************************************)
(* The page, as the content script sees it                                 *)
(***************************************************************************)
\* window.scrollTo({left, top}): the browser keeps the scroll position inside
\* [0, document - viewport] (README: "Max scroll: 700px (1700 - 1000)")
ClampScroll(p, target) ==
    Pt(Max(0, Min(target.x, Max(0, p.doc.width - p.viewport.width))),
       Max(0, Min(target.y, Max(0, p.doc.height - p.viewport.height))))

\* document.documentElement.style.overflow and document.body.style.overflow
\* of a page nobody has touched
OriginalOverflow == [html |-> "", body |-> "auto"]

\* hideScrollbars() of utils.js keeps the two styles in a closure and sets both
\* to 'hidden'; case 'hideScrollbars' stores the closure in scrollbarState,
\* over the one a previous hideScrollbars left there
OnHideScrollbars(p) ==
    [p EXCEPT !.scrollbarState = <<p.overflow>>,
              !.overflow = [html |-> "hidden", body |-> "hidden"],
              !.lastToggle = "hide"]

\* showScrollbars without its "if (scrollbarState && scrollbarState.restore)":
\* with no state to restore the styles are reset
OnShowScrollbarsUnguarded(p) ==
    [p EXCEPT !.overflow = IF p.scrollbarState # <<>>
                           THEN p.scrollbarState[1]
                           ELSE [html |-> "", body |-> ""],
              !.scrollbarState = <<>>,
              !.lastToggle = "show"]

\* showScrollbars(scrollbarState) calls restore() when there is a state;
\* case 'showScrollbars' then sets scrollbarState = null
OnShowScrollbars(p) ==
    [p EXCEPT !.overflow = IF p.scrollbarState # <<>>
                           THEN p.scrollbarState[1] ELSE @,
              !.scrollbarState = <<>>,
              !.lastToggle = "show"]

\* showDebugBorder: an existing border is removed, a new one appended
OnShowDebugBorder(p) == [p EXCEPT !.border = TRUE]

\* hideDebugBorder: if (border) border.remove()
OnHideDebugBorder(p) == [p EXCEPT !.border = FALSE]

(***************************************************************************)
(* The jobs the model runs.  A scene is one job with its environment.      *)
(***************************************************************************)
DprSet == {2, 3, 4, 6}

SizeStep == 5

MaxSizeSteps == 5

MaxDocPx == 7

Sizes == {i * SizeStep : i \in 0..MaxSizeSteps}

GridViewport == Size(Px(3), Px(3))

BigViewport == Size(Px(1000), Px(800))

\* captureVisibleTab returns the viewport at physical resolution; when
\* viewport * dpr is not whole the browser's frame is one of its neighbours
Frames(viewport, dpr) ==
    {Size(w, h) :
        w \in {MathFloor(Times(viewport.width, dpr)),
               MathCeil(Times(viewport.width, dpr))},
        h \in {MathFloor(Times(viewport.height, dpr)),
               MathCeil(Times(viewport.height, dpr))}}

ElementData(rect, scroll, viewport, doc, dpr, debugMode) ==
    [kind |-> "element", rect |-> rect, scroll |-> scroll,
     viewport |-> viewport, documentDimensions |-> doc, dpr |-> dpr,
     debugMode |-> debugMode]

PageData(kind, scroll, viewport, doc, dpr) ==
    [kind |-> kind, rect |-> Rect(0, 0, 0, 0), scroll |-> scroll,
     viewport |-> viewport, documentDimensions |-> doc, dpr |-> dpr,
     debugMode |-> FALSE]

\* where the element sits: its viewport position, the page scroll, the document
OriginCases ==
    {[at |-> Pt(0, 0), scroll |-> Pt(0, 0), doc |-> Size(Px(12), Px(12))],
     [at |-> Pt(2, 6), scroll |-> Pt(4, 0), doc |-> Size(Px(6), Px(5))],
     [at |-> Pt(-5, -3), scroll |-> Pt(8, 4), doc |-> Size(Px(10), Px(10))],
     [at |-> Pt(13, 0), scroll |-> Pt(0, 0), doc |-> Size(Px(12), Px(12))],
     [at |-> Pt(9, 0), scroll |-> Pt(0, 0), doc |-> Size(Px(6), Px(6))]}

\* the frame whose size is viewport * dpr rounded up
CeilFrame(viewport, dpr) ==
    Size(MathCeil(Times(viewport.width, dpr)),
         MathCeil(Times(viewport.height, dpr)))

GridElementScenes ==
    {[data |-> ElementData(Rect(o.at.x, o.at.y, w, h), o.scroll,
                           GridViewport, o.doc, dpr, debug),
      fullCapture |-> full, frame |-> CeilFrame(GridViewport, dpr)] :
        o \in OriginCases, w \in Sizes, h \in Sizes, dpr \in DprSet,
        debug \in BOOLEAN, full \in BOOLEAN}

GridPageScenes ==
    UNION {{[data |-> PageData("fullpage", Pt(0, 0), GridViewport,
                               Size(Px(w), Px(h)), dpr),
             fullCapture |-> FALSE, frame |-> f] :
               w \in 1..MaxDocPx, h \in 1..MaxDocPx,
               f \in Frames(GridViewport, dpr)} : dpr \in DprSet}

ViewportScenes ==
    UNION {{[data |-> PageData("viewport", Pt(4, 8), GridViewport,
                               Size(Px(6), Px(6)), dpr),
             fullCapture |-> full, frame |-> f] :
               full \in BOOLEAN, f \in Frames(GridViewport, dpr)} :
           dpr \in DprSet}

\* spec.md section 8, Scenario: document 1700x800, viewport 1000x800, dpr 2,
\* element at page (500,0) of size 1200x800
ScenarioData ==
    ElementData(Rect(Px(500), 0, Px(1200), Px(800)), Pt(0, 0), BigViewport,
                Size(Px(1700), Px(800)), 4, FALSE)

ScenarioScene ==
    [data |-> ScenarioData, fullCapture |-> TRUE, frame |-> Size(2000, 1600)]

\* README, "Handling Document Boundaries", taken one tile further: an element
\* 2400 px wide at the left edge of the same 1700 px page (targets 0, 1000,
\* 2000; the page scrolls to 0, 700, 700)
BoundaryData ==
    ElementData(Rect(0, 0, Px(2400), Px(800)), Pt(0, 0), BigViewport,
                Size(Px(1700), Px(800)), 4, FALSE)

BoundaryScene ==
    [data |-> BoundaryData, fullCapture |-> TRUE, frame |-> Size(2000, 1600)]

\* regions around the raster ceiling: 16384 px, 16384.25 px, 16384.5 px and
\* 16385 px at dpr 1, 10922.75 px at dpr 1.5 (16384.125 physical)
CeilingLengths == {<<Px(16384), 2>>, <<Px(16384) + 1, 2>>, <<Px(16384) + 2, 2>>,
                   <<Px(16385), 2>>, <<43691, 3>>}

CeilingScenes ==
    {[data |-> ElementData(IF wide THEN Rect(0, 0, c[1], Px(100))
                                   ELSE Rect(0, 0, Px(100), c[1]),
                           Pt(0, 0), BigViewport,
                           Size(Px(20000), Px(20000)), c[2], FALSE),
      fullCapture |-> full,
      frame |-> CeilFrame(BigViewport, c[2])] :
        c \in CeilingLengths, wide \in BOOLEAN, full \in BOOLEAN}
    \cup
    {[data |-> PageData("fullpage", Pt(0, 0), BigViewport,
                        IF wide THEN Size(Px(n), Px(800))
                                ELSE Size(Px(1000), Px(n)), 2),
      fullCapture |-> FALSE, frame |-> Size(1000, 800)] :
        n \in {16384, 16385}, wide \in BOOLEAN}

Scenes ==
    GridElementScenes \cup GridPageScenes \cup ViewportScenes
    \cup {ScenarioScene, BoundaryScene} \cup CeilingScenes

\* what chrome.storage.local holds under 'format' and 'quality': nothing
\* (<<>>) or the value the popup saved
StoredFormats == {<<>>, <<"png">>, <<"jpg">>}

StoredQualities == {<<>>, <<1>>, <<80>>, <<100>>}

\* one scene of each capture path, captured under every stored format and
\* quality: the Scenario element (tiled), a full page of 4 x 4 px, the
\* viewport, and an element of 1 x 1 px that fits the viewport
EncodeScenes ==
    {ScenarioScene,
     [data |-> PageData("fullpage", Pt(0, 0), GridViewport,
                        Size(Px(4), Px(4)), 2),
      fullCapture |-> FALSE, frame |-> CeilFrame(GridViewport, 2)],
     [data |-> PageData("viewport", Pt(4, 8), GridViewport,
                        Size(Px(6), Px(6)), 2),
      fullCapture |-> FALSE, frame |-> CeilFrame(GridViewport, 2)],
     [data |-> ElementData(Rect(0, 0, Px(1), Px(1)), Pt(0, 0), GridViewport,
                           Size(Px(12), Px(12)), 2, FALSE),
      fullCapture |-> FALSE, frame |-> CeilFrame(GridViewport, 2)]}

StoredSettings(sc) ==
    IF sc \in EncodeScenes
    THEN {[format |-> f, quality |-> q] :
             f \in StoredFormats, q \in StoredQualities}
    ELSE {[format |-> <<>>, quality |-> <<>>]}

\* scenes in which a second captureElement message for the same element
\* reaches the service worker: an element 4 x 1 px in the 3 x 3 viewport
TwoJobScenes ==
    {[data |-> ElementData(Rect(0, 0, Px(4), Px(1)), Pt(0, 0), GridViewport,
                           Size(Px(12), Px(12)), 2, FALSE),
      fullCapture |-> full, frame |-> CeilFrame(GridViewport, 2)] :
        full \in BOOLEAN}

(***************************************************************************)
(* State                                                                   *)
(***************************************************************************)
\* a job: the one the service worker is handling ("start"), one whose
\* message has not been sent yet ("pending"), or none ("absent")
\* the popup is not open
NoPopup ==
    [open |-> FALSE, currentState |-> "idle", disabled |-> FALSE,
     timers |-> [d \in {2000, 3000} |-> 0], awaiting |-> "none",
     events |-> 0, lastStep |-> "none"]

MessageIds == {1, 2}

\* no message for the listener of the content script
NoMessage ==
    [action |-> "none", pc |-> "none", outcome |-> "none", responses |-> 0,
     to |-> Pt(0, 0)]

NewJob(pc) ==
    [pc |-> pc, mode |-> "none", tileX |-> 0, tileY |-> 0, cumulativeY |-> 0,
     canvas |-> <<>>, bitmap |-> FALSE, msg |-> Pt(0, 0),
     scrollResponse |-> Pt(0, 0), pending |-> "none",
     result |-> "none", error |-> "none"]

NoHistory ==
    [captures |-> 0, scrolls |-> 0, restores |-> 0, hides |-> 0, shows |-> 0,
     showBorders |-> 0, hideBorders |-> 0, replies |-> <<>>, tiles |-> <<>>,
     surfaces |-> <<>>, settles |-> <<>>, encodes |-> <<>>,
     crops |-> <<>>, mainFail |-> "none", cleanupFail |-> {},
     returned |-> FALSE, delivered |-> FALSE]

Init ==
    \E sc \in Scenes \cup TwoJobScenes \cup EncodeScenes, second \in BOOLEAN :
        /\ second => sc \in TwoJobScenes
        /\ data = [j \in JobIds |-> sc.data]
        /\ \E st \in StoredSettings(sc) :
              settings = [fullCapture |-> sc.fullCapture,
                          format |-> st.format, quality |-> st.quality]
        /\ page = [scroll |-> sc.data.scroll, viewport |-> sc.data.viewport,
                   doc |-> sc.data.documentDimensions,
                   overflow |-> OriginalOverflow, scrollbarState |-> <<>>,
                   border |-> FALSE, lastToggle |-> "none"]
        /\ frame = sc.frame
        /\ js = [j \in JobIds |->
                    NewJob(IF j = 1 THEN "start"
                           ELSE IF second THEN "pending" ELSE "absent")]
        /\ hist = [j \in JobIds |-> NoHistory]
        /\ popup = NoPopup
        /\ inbox = [m \in MessageIds |-> NoMessage]

(***************************************************************************)
(* Control flow shared by the handlers                                     *)
(***************************************************************************)
\* the catch of handleElementCapture / handleViewportOrPageCapture:
\* return { success: false, error: error.message }
Caught(s, err) == [s EXCEPT !.pc = "done", !.result = "failed", !.error = err]

\* the first step of the job's own work that failed
Noted(h, err) == [h EXCEPT !.mainFail = IF @ = "none" THEN err ELSE @]

\* a try block without finally: the cleanup runs only when the block returns
FinallySkippedOnThrow(s, outcome) ==
    IF outcome = "none" THEN [s EXCEPT !.pc = "showSent", !.pending = "none"]
    ELSE Caught(s, outcome)

\* the try block of a tiled capture is left, by return (outcome "none") or by
\* an exception: the finally block starts by sending showScrollbars
Finally(s, outcome) == [s EXCEPT !.pc = "showSent", !.pending = outcome]

\* a cleanup request without its catch: the error e replaces the outcome
CleanupRethrow(pending, e) == e

\* catch (e) { console.warn(...) } around a cleanup request: the error e is
\* dropped and the outcome of the try block stands
CleanupCatch(pending, e) == pending

\* a finally block that ends in a return of its own: the pending exception is
\* dropped and the job goes on to downloadImage
AfterFinallyReturns(s) == [s EXCEPT !.pc = "downloadSent"]

\* the finally block is done: the pending exception goes on to the handler's
\* catch, a returned blob goes to downloadImage
AfterFinally(s) ==
    IF s.pending # "none"
    THEN Caught(s, s.pending)
    ELSE [s EXCEPT !.pc = "downloadSent"]

\* the tile loop at (tileX, tileY): send scrollToPosition for the next tile,
\* or, the loop done, call finalCanvas.convertToBlob
Advance(s, d, tileX, tileY, cumulativeY) ==
    LET n == LoopFrom(d, tileX, tileY, cumulativeY)
    IN  [s EXCEPT !.tileX = n.tileX, !.tileY = n.tileY,
                  !.cumulativeY = n.cumulativeY,
                  !.pc = IF n.done THEN "encodeSent" ELSE "scrollSent",
                  !.msg = IF n.done THEN @
                          ELSE Pt(TargetScrollX(d, n.tileX),
                                  TargetScrollY(d, n.tileY))]

\* const outputFormat = settings.format || 'png'
OutputFormat(st) == IF st.format = <<>> THEN "png" ELSE st.format[1]

\* const outputQuality = settings.quality || 95
OutputQuality(st) ==
    IF st.quality = <<>> \/ st.quality = <<0>> THEN 95 ELSE st.quality[1]

\* format === 'jpg' ? 'image/jpeg' : 'image/png'
MimeType(format) == IF format = "jpg" THEN "image/jpeg" ELSE "image/png"

\* a quality passed to the encoder whatever the format is
QualityParamAlways(format, quality) == <<[num |-> quality, den |-> 100]>>

\* format === 'jpg' ? quality / 100 : undefined; the quotient is kept as
\* numerator and denominator, undefined is <<>>
QualityParam(format, quality) ==
    IF format = "jpg" THEN <<[num |-> quality, den |-> 100]>> ELSE <<>>

\* the argument of convertToBlob
EncodeOptions(st) ==
    [type |-> MimeType(OutputFormat(st)),
     quality |-> QualityParam(OutputFormat(st), OutputQuality(st))]

\* The history of a job after a step from s to s1: the request the job now
\* waits for has been issued, a canvas that appeared has been allocated, and
\* a tiled capture that reached the handler again has returned.
Account(h, s, s1) ==
    LET issued(pc) == IF s1.pc = pc /\ s.pc # pc THEN 1 ELSE 0
    IN  [h EXCEPT
            !.captures = @ + issued("captureSent"),
            !.scrolls = @ + issued("scrollSent"),
            !.restores = @ + issued("restoreSent"),
            !.hides = @ + issued("hideSent"),
            !.shows = @ + issued("showSent"),
            !.showBorders = @ + issued("borderSent"),
            !.hideBorders = @ + issued("unborderSent"),
            !.encodes = IF issued("encodeSent") + issued("cropEncodeSent")
                           + issued("viewEncodeSent") > 0
                        THEN Append(@, [mode |-> s1.mode,
                                        options |-> EncodeOptions(settings)])
                        ELSE @,
            !.surfaces = IF s.canvas = <<>> /\ s1.canvas # <<>>
                         THEN Append(@, s1.canvas[1]) ELSE @,
            !.returned = @ \/ (s.mode = "tiled"
                               /\ s1.pc \in {"done", "downloadSent"})]

(***************************************************************************)
(* handleElementCapture / handleViewportOrPageCapture                      *)
(***************************************************************************)
\* captureFullElement / captureFullPage up to the first await: the ceiling
\* check, the final canvas, the hideScrollbars request
StartTiled(s, d) ==
    IF TooLarge(d)
    THEN Caught(s, "too large")
    ELSE [s EXCEPT !.mode = "tiled", !.pc = "hideSent",
                   !.canvas = <<Size(FinalWidth(d), FinalHeight(d))>>]

\* the user picks the element again while the page is where the running job
\* left it: the content script measures the element (getBoundingClientRect
\* is relative to the viewport) and the scroll offsets, and the listener of
\* the service worker starts a handler for the message at once
Arrive(j) ==
    LET d == data[j]
    IN  /\ js[j].pc = "pending"
        /\ data' = [data EXCEPT ![j] =
               [d EXCEPT !.scroll = page.scroll,
                         !.rect = Rect(ElementAbsX(d) - page.scroll.x,
                                       ElementAbsY(d) - page.scroll.y,
                                       d.rect.width, d.rect.height)]]
        /\ js' = [js EXCEPT ![j].pc = "start"]
        /\ UNCHANGED <<popup, inbox, settings, page, frame, hist>>

\* settings loaded: the handler picks the capture path and runs to its
\* first await
LoadSettings(j) ==
    LET d == data[j]
        s == js[j]
        tiled == d.kind = "fullpage"
                 \/ (d.kind = "element"
                     /\ NeedsMultiCapture(d, settings.fullCapture))
        s1 == IF tiled THEN StartTiled(s, d)
              ELSE [s EXCEPT !.pc = "captureSent",
                             !.mode = IF d.kind = "element" THEN "single"
                                      ELSE "viewport"]
    IN  /\ s.pc = "start"
        /\ js' = [js EXCEPT ![j] = s1]
        /\ hist' = [hist EXCEPT ![j] =
               Account(IF s1.pc = "done" THEN Noted(@, s1.error) ELSE @,
                       s, s1)]
        /\ UNCHANGED <<popup, inbox, data, settings, page, frame>>

\* chrome.storage.local.get rejects
SettingsFail(j) ==
    /\ js[j].pc = "start"
    /\ js' = [js EXCEPT ![j] = Caught(@, "settings")]
    /\ hist' = [hist EXCEPT ![j] = Noted(@, "settings")]
    /\ UNCHANGED <<popup, inbox, data, settings, page, frame>>

(***************************************************************************)
(* The tiled capture: captureFullElement, captureFullPage                  *)
(***************************************************************************)
\* an awaited request inside the try block rejects
Throw(j, at, err) ==
    /\ js[j].pc = at
    /\ js[j].mode = "tiled"
    /\ js' = [js EXCEPT ![j] = Finally(@, err)]
    /\ hist' = [hist EXCEPT ![j] =
                    Account(Noted(@, err), js[j], Finally(js[j], err))]
    /\ UNCHANGED <<popup, inbox, data, settings, page, frame>>

\* the content script handled hideScrollbars and answered: cumulativeY = 0
\* and the loop starts
HideReply(j) ==
    LET s1 == Advance(js[j], data[j], 0, 0, 0)
    IN  /\ js[j].pc = "hideSent"
        /\ page' = OnHideScrollbars(page)
        /\ js' = [js EXCEPT ![j] = s1]
        /\ hist' = [hist EXCEPT ![j] = Account(@, js[j], s1)]
        /\ UNCHANGED <<popup, inbox, data, settings, frame>>

HideFail(j) == Throw(j, "hideSent", "hideScrollbars")

\* content script, case 'scrollToPosition': window.scrollTo, then the wait
\* for rendering
ContentScrollTo(j) ==
    /\ js[j].pc \in {"scrollSent", "restoreSent"}
    /\ page' = [page EXCEPT !.scroll = ClampScroll(page, js[j].msg)]
    /\ js' = [js EXCEPT ![j].pc =
                  IF @ = "scrollSent" THEN "scrollWait" ELSE "restoreWait"]
    /\ UNCHANGED <<popup, inbox, data, settings, frame, hist>>

\* content script: sendResponse({ scroll: getScrollOffsets() }); the service
\* worker goes on to showDebugBorder (debug mode) or to the settle delay
ScrollReply(j) ==
    LET s1 == [js[j] EXCEPT !.scrollResponse = page.scroll,
                            !.pc = IF data[j].debugMode THEN "borderSent"
                                   ELSE "settle"]
    IN  /\ js[j].pc = "scrollWait"
        /\ js' = [js EXCEPT ![j] = s1]
        /\ hist' = [hist EXCEPT ![j] =
               Account([@ EXCEPT !.replies = Append(@, page.scroll)],
                       js[j], s1)]
        /\ UNCHANGED <<popup, inbox, data, settings, page, frame>>

ScrollFail(j) ==
    \/ Throw(j, "scrollSent", "scrollToPosition")
    \/ Throw(j, "scrollWait", "scrollToPosition")

\* the content script handled showDebugBorder and answered
BorderReply(j) ==
    /\ js[j].pc = "borderSent"
    /\ page' = OnShowDebugBorder(page)
    /\ js' = [js EXCEPT ![j].pc = "settle"]
    /\ UNCHANGED <<popup, inbox, data, settings, frame, hist>>

BorderFail(j) == Throw(j, "borderSent", "showDebugBorder")

\* the same delay for every job, debug mode or not
SettleDelayFixed(d) == 600

\* the milliseconds of the setTimeout after a scroll: 600 in captureFullPage,
\* debugMode ? 1200 : 600 in captureFullElement
SettleDelay(d) ==
    IF d.kind = "fullpage" THEN 600
    ELSE IF d.debugMode THEN 1200 ELSE 600

\* the setTimeout of 600 ms (1200 ms in debug mode) is over:
\* chrome.tabs.captureVisibleTab is called
SettleDone(j) ==
    LET s1 == [js[j] EXCEPT !.pc = "captureSent"]
        waited == [ms |-> SettleDelay(data[j]),
                   replies |-> Len(hist[j].replies)]
    IN  /\ js[j].pc = "settle"
        /\ js' = [js EXCEPT ![j] = s1]
        /\ hist' = [hist EXCEPT ![j] =
               Account([@ EXCEPT !.settles = Append(@, waited)], js[j], s1)]
        /\ UNCHANGED <<popup, inbox, data, settings, page, frame>>

\* captureVisibleTab answered with a data URL: fetch and createImageBitmap
CaptureReply(j) ==
    /\ js[j].pc = "captureSent"
    /\ js[j].mode = "tiled"
    /\ js' = [js EXCEPT ![j].pc = "decode"]
    /\ UNCHANGED <<popup, inbox, data, settings, page, frame, hist>>

CaptureFail(j) == Throw(j, "captureSent", "captureVisibleTab")

\* a tile loop that throws, as cropImageToElement does, when the source
\* rectangle leaves the frame
CompositeStrict(j) ==
    LET s == js[j]
        d == data[j]
        t == Tile(d, s.tileX, s.tileY, s.scrollResponse, s.cumulativeY, frame)
        s1 == IF t.drawn = "full"
              THEN Advance(s, d, s.tileX + 1, s.tileY, s.cumulativeY)
              ELSE Finally(s, "outside viewport")
    IN  /\ s.pc = "decode"
        /\ s.mode = "tiled"
        /\ js' = [js EXCEPT ![j] = s1]
        /\ hist' = [hist EXCEPT ![j] =
               Account([(IF t.drawn = "full" THEN @
                         ELSE Noted(@, "outside viewport"))
                           EXCEPT !.tiles = Append(@, t)], s, s1)]
        /\ UNCHANGED <<popup, inbox, data, settings, page, frame>>

\* the frame is decoded: the tile is drawn on the final canvas, the frame
\* closed, and the loop goes on
Composite(j) ==
    LET s == js[j]
        d == data[j]
        t == Tile(d, s.tileX, s.tileY, s.scrollResponse, s.cumulativeY, frame)
        s1 == Advance(s, d, s.tileX + 1, s.tileY, s.cumulativeY)
    IN  /\ s.pc = "decode"
        /\ s.mode = "tiled"
        /\ js' = [js EXCEPT ![j] = s1]
        /\ hist' = [hist EXCEPT ![j] =
                        Account([@ EXCEPT !.tiles = Append(@, t)], s, s1)]
        /\ UNCHANGED <<popup, inbox, data, settings, page, frame>>

DecodeFail(j) == Throw(j, "decode", "decode")

\* convertToBlob rejects for a canvas without pixels (a zero width or height)
Encodable(c) == c.width > 0 /\ c.height > 0

\* convertToBlob answered: finalCanvas.width = 0, height = 0, return the blob
EncodeReply(j) ==
    LET s1 == Finally([js[j] EXCEPT !.canvas = <<Size(0, 0)>>], "none")
    IN  /\ js[j].pc = "encodeSent"
        /\ js[j].mode = "tiled"
        /\ Encodable(js[j].canvas[1])
        /\ js' = [js EXCEPT ![j] = s1]
        /\ hist' = [hist EXCEPT ![j] = Account(@, js[j], s1)]
        /\ UNCHANGED <<popup, inbox, data, settings, page, frame>>

EncodeFail(j) == Throw(j, "encodeSent", "encode")

\* what follows the showScrollbars request in the finally block:
\* captureFullElement has, in debug mode, a second try with hideDebugBorder;
\* captureFullPage has, in the same try and so only after an answer, the
\* scroll to (0,0)
AfterShow(s, d, answered) ==
    IF d.kind = "fullpage"
    THEN IF answered THEN [s EXCEPT !.pc = "restoreSent", !.msg = Pt(0, 0)]
         ELSE AfterFinally(s)
    ELSE IF d.debugMode THEN [s EXCEPT !.pc = "unborderSent"]
         ELSE AfterFinally(s)

\* the content script handled showScrollbars and answered
ShowReply(j) ==
    LET s1 == AfterShow(js[j], data[j], TRUE)
    IN  /\ js[j].pc = "showSent"
        /\ page' = OnShowScrollbars(page)
        /\ js' = [js EXCEPT ![j] = s1]
        /\ hist' = [hist EXCEPT ![j] = Account(@, js[j], s1)]
        /\ UNCHANGED <<popup, inbox, data, settings, frame>>

\* showScrollbars rejects: caught
ShowFail(j) ==
    LET s1 == AfterShow([js[j] EXCEPT !.pending =
                             CleanupCatch(@, "showScrollbars")],
                        data[j], FALSE)
    IN  /\ js[j].pc = "showSent"
        /\ js' = [js EXCEPT ![j] = s1]
        /\ hist' = [hist EXCEPT ![j] =
               Account([@ EXCEPT !.cleanupFail = @ \cup {"showScrollbars"}],
                       js[j], s1)]
        /\ UNCHANGED <<popup, inbox, data, settings, page, frame>>

\* the cleanup's last request (hideDebugBorder, or the scroll to (0,0))
\* answered
CleanupReply(j) ==
    LET s1 == AfterFinally(js[j])
    IN  /\ js[j].pc \in {"unborderSent", "restoreWait"}
        /\ page' = IF js[j].pc = "unborderSent" THEN OnHideDebugBorder(page)
                   ELSE page
        /\ js' = [js EXCEPT ![j] = s1]
        /\ hist' = [hist EXCEPT ![j] = Account(@, js[j], s1)]
        /\ UNCHANGED <<popup, inbox, data, settings, frame>>

\* the cleanup's last request rejects: caught
CleanupFail(j) ==
    LET what == IF js[j].pc = "unborderSent" THEN "hideDebugBorder"
                ELSE "restoreScroll"
        s1 == AfterFinally([js[j] EXCEPT !.pending = CleanupCatch(@, what)])
    IN  /\ js[j].pc \in {"unborderSent", "restoreSent", "restoreWait"}
        /\ js' = [js EXCEPT ![j] = s1]
        /\ hist' = [hist EXCEPT ![j] =
               Account([@ EXCEPT !.cleanupFail = @ \cup {what}], js[j], s1)]
        /\ UNCHANGED <<popup, inbox, data, settings, page, frame>>

(***************************************************************************)
(* The single capture: handleElementCapture with cropImageToElement, and   *)
(* the viewport mode of handleViewportOrPageCapture                        *)
(***************************************************************************)
\* cropImageToElement up to its first await: the two validations
CropStart(s, d) ==
    IF ZeroDimensions(d) THEN Caught(s, "zero dimensions")
    ELSE IF TooLarge(d) THEN Caught(s, "too large")
    ELSE [s EXCEPT !.pc = "cropDecode"]

\* captureVisibleTab answered, outside the tiled capture
PlainCaptureReply(j) ==
    LET s == js[j]
        s1 == IF s.mode = "single" THEN CropStart(s, data[j])
              ELSE [s EXCEPT !.pc = "viewDecode"]
    IN  /\ s.pc = "captureSent"
        /\ s.mode \in {"single", "viewport"}
        /\ js' = [js EXCEPT ![j] = s1]
        /\ hist' = [hist EXCEPT ![j] =
               IF s1.pc = "done" THEN Noted(@, s1.error) ELSE @]
        /\ UNCHANGED <<popup, inbox, data, settings, page, frame>>

\* cropImageToElement: the frame is decoded, the canvas made, the source
\* rectangle checked and drawn, convertToBlob called
CropComposite(j) ==
    LET s == js[j]
        d == data[j]
        c == Crop(d, frame)
        made == [s EXCEPT !.bitmap = TRUE,
                          !.canvas = <<Size(FinalWidth(d), FinalHeight(d))>>]
        s1 == IF c.completelyOutside THEN Caught(made, "outside viewport")
              ELSE [made EXCEPT !.pc = "cropEncodeSent"]
    IN  /\ s.pc = "cropDecode"
        /\ js' = [js EXCEPT ![j] = s1]
        /\ hist' = [hist EXCEPT ![j] =
               Account([(IF s1.pc = "done" THEN Noted(@, s1.error) ELSE @)
                           EXCEPT !.crops = Append(@, c)], s, s1)]
        /\ UNCHANGED <<popup, inbox, data, settings, page, frame>>

\* viewport mode: the frame is decoded, drawn on a canvas of its own size,
\* convertToBlob called
ViewportComposite(j) ==
    LET s1 == [js[j] EXCEPT !.pc = "viewEncodeSent", !.bitmap = TRUE,
                            !.canvas = <<frame>>]
    IN  /\ js[j].pc = "viewDecode"
        /\ js' = [js EXCEPT ![j] = s1]
        /\ hist' = [hist EXCEPT ![j] = Account(@, js[j], s1)]
        /\ UNCHANGED <<popup, inbox, data, settings, page, frame>>

\* convertToBlob answered: imageBitmap.close(), canvas.width = 0, and on to
\* downloadImage
PlainEncodeReply(j) ==
    /\ js[j].pc \in {"cropEncodeSent", "viewEncodeSent"}
    /\ Encodable(js[j].canvas[1])
    /\ js' = [js EXCEPT ![j].pc = "downloadSent", ![j].bitmap = FALSE,
                        ![j].canvas = <<Size(0, 0)>>]
    /\ UNCHANGED <<popup, inbox, data, settings, page, frame, hist>>

\* an awaited step outside the tiled capture rejects: straight to the
\* handler's catch
PlainFail(j) ==
    LET at == js[j].pc
        err == IF at = "captureSent" THEN "captureVisibleTab"
               ELSE IF at \in {"cropDecode", "viewDecode"} THEN "decode"
               ELSE "encode"
    IN  /\ js[j].mode \in {"single", "viewport"}
        /\ at \in {"captureSent", "cropDecode", "viewDecode",
                   "cropEncodeSent", "viewEncodeSent"}
        /\ js' = [js EXCEPT ![j] = Caught(@, err)]
        /\ hist' = [hist EXCEPT ![j] = Noted(@, err)]
        /\ UNCHANGED <<popup, inbox, data, settings, page, frame>>

(***************************************************************************)
(* downloadImage                                                           *)
(***************************************************************************)
\* the callback of chrome.downloads.download runs without lastError: the
\* onChanged listener is registered
DownloadStarted(j) ==
    /\ js[j].pc = "downloadSent"
    /\ js' = [js EXCEPT ![j].pc = "downloadWait"]
    /\ UNCHANGED <<popup, inbox, data, settings, page, frame, hist>>

\* onChanged: the download reached state 'complete': the listener resolves,
\* the handler returns { success: true }
DownloadComplete(j) ==
    /\ js[j].pc = "downloadWait"
    /\ js' = [js EXCEPT ![j].pc = "done", ![j].result = "success"]
    /\ hist' = [hist EXCEPT ![j].delivered = TRUE]
    /\ UNCHANGED <<popup, inbox, data, settings, page, frame>>

\* onChanged: the download reached state 'interrupted': the listener looks
\* for 'complete' only, so neither resolve nor reject is called, and no
\* further event comes for this download
DownloadInterrupted(j) ==
    /\ js[j].pc = "downloadWait"
    /\ js' = [js EXCEPT ![j].pc = "downloadInterrupted"]
    /\ UNCHANGED <<popup, inbox, data, settings, page, frame, hist>>

\* blobToDataURL rejects, or chrome.runtime.lastError in the download callback
DownloadFail(j) ==
    /\ js[j].pc = "downloadSent"
    /\ js' = [js EXCEPT ![j] = Caught(@, "download")]
    /\ hist' = [hist EXCEPT ![j] = Noted(@, "download")]
    /\ UNCHANGED <<popup, inbox, data, settings, page, frame>>

(***************************************************************************)
(* Specification                                                           *)
(***************************************************************************)
\* one step of job j, in the service worker or in the content script
Step(j) ==
        \/ Arrive(j)
        \/ LoadSettings(j)
        \/ SettingsFail(j)
        \/ HideReply(j)
        \/ HideFail(j)
        \/ ContentScrollTo(j)
        \/ ScrollReply(j)
        \/ ScrollFail(j)
        \/ BorderReply(j)
        \/ BorderFail(j)
        \/ SettleDone(j)
        \/ CaptureReply(j)
        \/ CaptureFail(j)
        \/ Composite(j)
        \/ DecodeFail(j)
        \/ EncodeReply(j)
        \/ EncodeFail(j)
        \/ ShowReply(j)
        \/ ShowFail(j)
        \/ CleanupReply(j)
        \/ CleanupFail(j)
        \/ PlainCaptureReply(j)
        \/ CropComposite(j)
        \/ ViewportComposite(j)
        \/ PlainEncodeReply(j)
        \/ PlainFail(j)
        \/ DownloadStarted(j)
        \/ DownloadComplete(j)
        \/ DownloadInterrupted(j)
        \/ DownloadFail(j)

Next == \E j \in JobIds : Step(j)

Spec == Init /\ [][Next]_vars

\* the browser runs every task that is ready: a job that can take a step
\* (a message to send, an answer or an event to handle) eventually takes one
LiveSpec == Spec /\ \A j \in JobIds : WF_vars(Step(j))

(***************************************************************************)
(* Properties                                                              *)
(***************************************************************************)
Done(j) == js[j].pc = "done"

Tiles(j) == hist[j].tiles

\* the job has a region: an element's box or the whole document
HasRegion(j) == data[j].kind \in {"element", "fullpage"}

\* region.width * dpr rounded up, as the claims write it
CeilWidth(d) == MathCeil(Times(RegionWidth(d), d.dpr))

CeilHeight(d) == MathCeil(Times(RegionHeight(d), d.dpr))

\* C1: the destination rectangles of the tiles of a tiled job abut exactly
\* (dx(c+1) = dx(c) + dWidth(c) in a row, dy(r+1) = dy(r) + dHeight(r) from
\* row to row), start at 0 and end at ceil(W*dpr) and ceil(H*dpr): together
\* they cover [0,ceil(W*dpr)) x [0,ceil(H*dpr)) and no two overlap.
C1_TilesAbutAndCover ==
    \A j \in JobIds : \A i \in 1..Len(Tiles(j)) :
        LET t == Tiles(j)[i]
            d == data[j]
        IN  /\ t.tileX = 0 => t.dx = 0
            /\ t.tileY = 0 => t.dy = 0
            /\ t.tileX = TilesX(d) - 1 => t.dx + t.dWidth = CeilWidth(d)
            /\ t.tileY = TilesY(d) - 1 => t.dy + t.dHeight = CeilHeight(d)
            /\ \A k \in 1..Len(Tiles(j)) :
                LET u == Tiles(j)[k]
                IN  /\ (u.tileY = t.tileY /\ u.tileX = t.tileX + 1)
                           => u.dx = t.dx + t.dWidth
                    /\ (u.tileX = t.tileX /\ u.tileY = t.tileY + 1)
                           => u.dy = t.dy + t.dHeight

\* C2: the source offset of every tile is floor((regionAbs - actual) * dpr)
\* with actual the scroll position the scrollToPosition response reported for
\* that tile; in the scenario of spec.md section 8 the plan is 2 x 1 tiles and
\* tile 1, requested at 1500 and answered 700, is extracted at sx = 1600.
C2_SourceOffsetFromReportedScroll ==
    \A j \in JobIds :
        /\ \A i \in 1..Len(Tiles(j)) :
            LET t == Tiles(j)[i]
                r == hist[j].replies[i]
                d == data[j]
            IN  /\ t.sx = MathFloor(Times(RegionAbsX(d, t.tileX) - r.x, d.dpr))
                /\ t.sy = MathFloor(Times(RegionAbsY(d, t.tileY) - r.y, d.dpr))
        /\ (data[j] = ScenarioData /\ Len(Tiles(j)) >= 2) =>
            /\ TilesX(data[j]) = 2 /\ TilesY(data[j]) = 1
            /\ Tiles(j)[2].target = Pt(Px(1500), 0)
            /\ hist[j].replies[2] = Pt(Px(700), 0)
            /\ Tiles(j)[2].sx = 1600

\* C2 happens: tile 1 of the scenario is composited after a scroll that the
\* document boundary stopped short of its target
C2_Witness ==
    /\ data[1] = ScenarioData
    /\ Len(Tiles(1)) = 2
    /\ hist[1].replies[2] # Tiles(1)[2].target

\* C3: a job whose region has width 0 or height 0 ends in failure and has
\* made no Frame Source call.
C3_ZeroRegionFailsWithoutCapture ==
    \A j \in JobIds :
        (HasRegion(j)
         /\ (RegionWidth(data[j]) = 0 \/ RegionHeight(data[j]) = 0))
        => /\ hist[j].captures = 0
           /\ Done(j) => js[j].result = "failed"

C5_CeilingFailureBeforeAnyCaptureWork ==
    \A j \in JobIds :
        hist[j].mainFail = "too large"
        => /\ hist[j].captures = 0
           /\ hist[j].scrolls = 0
           /\ hist[j].hides = 0

\* C6: a tiled job that issued hideScrollbars has issued showScrollbars when
\* it returns, on every exit path, and in debug mode hideDebugBorder too.
C6_ShowScrollbarsOnEveryExit ==
    \A j \in JobIds :
        (hist[j].returned /\ hist[j].hides > 0)
        => /\ hist[j].shows > 0
           /\ data[j].debugMode => hist[j].hideBorders > 0

\* C6 happens: a debug-mode job has returned after a Frame Source failure
C6_Witness ==
    /\ hist[1].returned
    /\ hist[1].mainFail = "captureVisibleTab"
    /\ data[1].debugMode
    /\ hist[1].hides > 0

\* C7: when a tiled job has returned, the page is scrolled where it was when
\* the job started.
C7_ScrollPositionRestored ==
    \A j \in JobIds :
        hist[j].returned => page.scroll = data[j].scroll

\* C8: a failed showScrollbars request does not keep the other cleanup
\* request from being issued: the scroll restore (full page), hideDebugBorder
\* (element, debug mode).
C8_CleanupStepsIndependent ==
    \A j \in JobIds :
        (hist[j].returned /\ "showScrollbars" \in hist[j].cleanupFail)
        => /\ data[j].kind = "fullpage" => hist[j].restores > 0
           /\ (data[j].kind = "element" /\ data[j].debugMode)
                  => hist[j].hideBorders > 0

\* C9: the result of a job is that of its own steps, whatever the cleanup
\* requests did: success when none of them failed, and otherwise the failure
\* of the first one that did.
C9_CleanupNeverChangesResult ==
    \A j \in JobIds :
        Done(j) =>
            IF hist[j].mainFail = "none"
            THEN js[j].result = "success"
            ELSE js[j].result = "failed" /\ js[j].error = hist[j].mainFail

\* C9 happens: a job is done whose two cleanup requests both failed
C9_Witness ==
    /\ Done(1)
    /\ hist[1].cleanupFail = {"showScrollbars", "hideDebugBorder"}
    /\ js[1].result = "success"

\* C10: a failed hideScrollbars request is not fatal: with no other failure
\* the job captures every planned tile and ends in success.
C10_HideFailureNotFatal ==
    \A j \in JobIds :
        (Done(j) /\ hist[j].mainFail = "hideScrollbars")
        => /\ js[j].result = "success"
           /\ hist[j].captures = TilesX(data[j]) * TilesY(data[j])

\* C11: whenever the last scrollbar message the content script handled is
\* showScrollbars, the overflow styles of the document element and the body
\* are what they were before the first hideScrollbars.
C11_ShowRestoresOriginalOverflow ==
    page.lastToggle = "show" => page.overflow = OriginalOverflow

\* C12: a showScrollbars message handled while there is no scrollbar state,
\* and a hideDebugBorder message handled while there is no debug border, are
\* answered (the job goes on as after any answer) and leave the page as it
\* was: overflow styles, scrollbar state, border, scroll position.  The job
\* whose request it was is the one that leaves its wait without a failure.
C12_RestoreWithoutHideIsNoOp ==
    [][\A j \in JobIds :
          /\ (js[j].pc = "showSent" /\ page.scrollbarState = <<>>
              /\ js'[j].pc # "showSent"
              /\ "showScrollbars" \notin hist'[j].cleanupFail)
             => /\ js'[j] = AfterShow(js[j], data[j], TRUE)
                /\ page' = [page EXCEPT !.lastToggle = "show"]
          /\ (js[j].pc = "unborderSent" /\ ~page.border
              /\ js'[j].pc # "unborderSent"
              /\ "hideDebugBorder" \notin hist'[j].cleanupFail)
             => /\ js'[j] = AfterFinally(js[j])
                /\ page' = page]_vars

\* C12 happens: a debug-mode job whose hideScrollbars request failed has had
\* its showScrollbars and hideDebugBorder requests answered
C12_Witness ==
    /\ Done(1)
    /\ data[1].debugMode
    /\ hist[1].mainFail = "hideScrollbars"
    /\ hist[1].shows = 1 /\ hist[1].hideBorders = 1
    /\ hist[1].cleanupFail = {}
    /\ page.lastToggle = "show"

\* C13: the tiles of a tiled job are composited in row-major order (tile k
\* is column k mod tilesX of row k div tilesX), and the scroll request and the
\* Frame Source call of tile k+1 are issued only when tile k has been
\* composited: at most one tile of a job is in progress.
C13_RowMajorOneTileAtATime ==
    \A j \in JobIds :
        /\ \A i \in 1..Len(Tiles(j)) :
              /\ Tiles(j)[i].tileX = (i - 1) % TilesX(data[j])
              /\ Tiles(j)[i].tileY = (i - 1) \div TilesX(data[j])
        /\ js[j].mode = "tiled" =>
              /\ hist[j].scrolls \in {Len(Tiles(j)), Len(Tiles(j)) + 1}
              /\ hist[j].captures \in {Len(Tiles(j)), Len(Tiles(j)) + 1}
              /\ hist[j].captures <= hist[j].scrolls
              /\ Len(hist[j].replies) <= hist[j].scrolls

\* C13 happens: a plan of several rows and several columns has its second
\* row under way
C13_Witness ==
    /\ TilesX(data[1]) > 1 /\ TilesY(data[1]) > 1
    /\ Len(Tiles(1)) > TilesX(data[1])
    /\ js[1].pc = "scrollSent"

\* the job is between its first scroll request and its return
Scrolling(j) == hist[j].scrolls > 0 /\ ~hist[j].returned

\* C14: at every moment at most one Frame Source call is in flight and at
\* most one job is issuing scroll requests, also when a second message
\* reaches the service worker while the first job is running.
C14_OneCaptureOneScrollingJob ==
    /\ Cardinality({j \in JobIds : js[j].pc = "captureSent"}) <= 1
    /\ Cardinality({j \in JobIds : Scrolling(j)}) <= 1

\* C15: every capture job that has started eventually ends with a response,
\* { success: true } or { success: false, error }.
C15_EveryJobTerminates ==
    \A j \in JobIds : (js[j].pc = "start") ~> Done(j)

\* C16: the handler reports exactly one outcome: nothing before it is done,
\* then either success, and then no step failed and the download completed,
\* or failure with the message of the first step that failed, and then
\* nothing was delivered.
C16_OneOutcomeAtJobBoundary ==
    \A j \in JobIds :
        IF Done(j)
        THEN \/ /\ js[j].result = "success"
                /\ js[j].error = "none"
                /\ hist[j].mainFail = "none"
                /\ hist[j].delivered
             \/ /\ js[j].result = "failed"
                /\ js[j].error # "none"
                /\ js[j].error = hist[j].mainFail
                /\ ~hist[j].delivered
        ELSE js[j].result = "none" /\ js[j].error = "none"
             /\ ~hist[j].delivered

\* C16 happens: a tiled job whose every tile and whose encoding succeeded
\* fails at the delivery
C16_Witness ==
    /\ Done(1)
    /\ js[1].mode = "tiled"
    /\ js[1].error = "download"
    /\ Len(Tiles(1)) = TilesX(data[1]) * TilesY(data[1])

\* the rectangle (sx, sy, sWidth, sHeight) has no pixel in common with a
\* frame of size img: it lies to the right, below, to the left or above
OutsideFrame(r, img) ==
    \/ r.sx >= img.width \/ r.sy >= img.height
    \/ r.sx + r.sWidth <= 0 \/ r.sy + r.sHeight <= 0

\* C17: in the single-element path a source rectangle that lies completely
\* outside the captured frame makes the job fail with the "completely
\* outside viewport" error, and nothing is composited or encoded.
C17_OutsideFrameIsRejected ==
    \A j \in JobIds : \A i \in 1..Len(hist[j].crops) :
        OutsideFrame(hist[j].crops[i], frame)
        => /\ hist[j].mainFail = "outside viewport"
           /\ js[j].pc = "done" /\ js[j].result = "failed"

\* what can fail in a tiled job: the awaited requests, never the geometry
TiledFailures ==
    {"none", "hideScrollbars", "scrollToPosition", "showDebugBorder",
     "captureVisibleTab", "decode", "encode", "download"}

\* C18: in the tiled paths a source rectangle that leaves the frame is never
\* fatal: the tile is clamped or skipped and the loop goes on, so the only
\* failures of a tiled job are those of its requests, and a job none of
\* whose requests failed has processed every planned tile and succeeds.
C18_OutOfBoundsTileNotFatal ==
    \A j \in JobIds :
        js[j].mode = "tiled" =>
            /\ hist[j].mainFail \in TiledFailures
            /\ (Done(j) /\ hist[j].mainFail = "none")
               => /\ js[j].result = "success"
                  /\ Len(Tiles(j)) = TilesX(data[j]) * TilesY(data[j])

\* C18 happens: a job has succeeded one of whose tiles was clamped
C18_Witness ==
    /\ Done(1) /\ js[1].result = "success" /\ js[1].mode = "tiled"
    /\ \E i \in 1..Len(Tiles(1)) : Tiles(1)[i].drawn = "clamped"

\* C19: every source rectangle passed to drawImage in the tiled paths lies in
\* the frame: 0 <= x <= frameWidth - 1, 0 <= y <= frameHeight - 1,
\* x + width <= frameWidth, y + height <= frameHeight.
C19_DrawnSourceInsideFrame ==
    \A j \in JobIds : \A i \in 1..Len(Tiles(j)) :
        LET t == Tiles(j)[i]
        IN  t.drawn # "skipped"
            => /\ 0 <= t.src.x /\ t.src.x <= frame.width - 1
               /\ 0 <= t.src.y /\ t.src.y <= frame.height - 1
               /\ t.src.x + t.src.width <= frame.width
               /\ t.src.y + t.src.height <= frame.height

\* C19 happens: a tile was drawn from a clamped source rectangle that ends
\* at the edge of the frame
C19_Witness ==
    \E i \in 1..Len(Tiles(1)) :
        /\ Tiles(1)[i].drawn = "clamped"
        /\ Tiles(1)[i].sy + Tiles(1)[i].sHeight > frame.height
        /\ Tiles(1)[i].src.y + Tiles(1)[i].src.height = frame.height

\* C20: every composited tile has a destination as wide and as high as the
\* source rectangle actually drawn, also when that one was clamped.
C20_DestinationSizeIsDrawnSourceSize ==
    \A j \in JobIds : \A i \in 1..Len(Tiles(j)) :
        LET t == Tiles(j)[i]
        IN  t.drawn # "skipped"
            => t.dWidth = t.src.width /\ t.dHeight = t.src.height

\* C21: the output surface of a tiled job is ceil(region.width * dpr) wide
\* and as high as the sum over all rows of ceil(rowHeight * dpr), the final
\* value of the cumulative-Y accumulator.
C21_TiledSurfaceIsCeilAccumulated ==
    \A j \in JobIds :
        (js[j].mode = "tiled" /\ hist[j].surfaces # <<>>)
        => /\ hist[j].surfaces[1].width = CeilWidth(data[j])
           /\ hist[j].surfaces[1].height
                  = CumulativeYAt(data[j], TilesY(data[j]))

\* C22: in the single-element path every successful job has produced an
\* output surface of exactly round(rect.width * dpr) x round(rect.height *
\* dpr) physical pixels, also when the source rectangle was partly outside
\* the frame.
C22_SingleSurfaceIsRounded ==
    \A j \in JobIds :
        (js[j].mode = "single"
         /\ (js[j].result = "success" \/ hist[j].crops # <<>>))
        => /\ Len(hist[j].surfaces) = 1
           /\ hist[j].surfaces[1].width
                  = MathRound(Times(data[j].rect.width, data[j].dpr))
           /\ hist[j].surfaces[1].height
                  = MathRound(Times(data[j].rect.height, data[j].dpr))

\* C22 happens: a single-path job has succeeded whose source rectangle was
\* partly outside the frame and whose width is not a whole number of
\* physical pixels
C22_Witness ==
    /\ js[1].mode = "single" /\ js[1].result = "success"
    /\ hist[1].crops[1].partlyOutside
    /\ Times(data[1].rect.width, data[1].dpr) % 8 # 0

\* the region of job j is not empty and no larger than the viewport
FitsViewport(j) ==
    /\ HasRegion(j)
    /\ 0 < RegionWidth(data[j])
    /\ RegionWidth(data[j]) <= data[j].viewport.width
    /\ 0 < RegionHeight(data[j])
    /\ RegionHeight(data[j]) <= data[j].viewport.height

\* C23: a region no larger than the viewport on both axes has a plan of
\* exactly one tile; every scroll request made for it asks for the scroll
\* position the page had when the job started, and the page is never moved.
C23_FittingRegionOneTileNoMove ==
    \A j \in JobIds :
        FitsViewport(j)
        => /\ TilesX(data[j]) = 1 /\ TilesY(data[j]) = 1
           /\ Len(Tiles(j)) <= 1
           /\ js[j].pc \in {"scrollSent", "scrollWait"}
                  => js[j].msg = data[j].scroll
           /\ page.scroll = data[j].scroll

\* C23 happens: the full-page capture of a document as large as the viewport
\* has composited its tile
C23_Witness ==
    /\ data[1].kind = "fullpage"
    /\ data[1].documentDimensions = data[1].viewport
    /\ Len(Tiles(1)) = 1
    /\ Done(1) /\ js[1].result = "success"

\* C24: an element job whose rect fits in the viewport makes at most one
\* Frame Source call, exactly one once its settings are loaded, and sends no
\* scrollToPosition, hideScrollbars or showScrollbars message, whatever the
\* fullCapture and debug settings are.
C24_FittingElementSingleCapture ==
    \A j \in JobIds :
        (FitsViewport(j) /\ data[j].kind = "element")
        => /\ hist[j].scrolls = 0 /\ hist[j].restores = 0
           /\ hist[j].hides = 0 /\ hist[j].shows = 0
           /\ hist[j].showBorders = 0 /\ hist[j].hideBorders = 0
           /\ hist[j].captures
                  = IF js[j].pc \in {"absent", "pending", "start"}
                       \/ hist[j].mainFail = "settings"
                    THEN 0 ELSE 1

\* C24 happens: with fullCapture and debug mode on, an element that fits
\* has been captured and delivered
C24_Witness ==
    /\ FitsViewport(1) /\ data[1].kind = "element"
    /\ settings.fullCapture /\ data[1].debugMode
    /\ Done(1) /\ js[1].result = "success"

\* the part of the page a drawn tile was taken from, in eighths of a physical
\* pixel: the scroll position of its frame plus the source rectangle drawn
PageRegion(t, d) ==
    [x0 |-> Times(t.actual.x, d.dpr) + 8 * t.src.x,
     x1 |-> Times(t.actual.x, d.dpr) + 8 * (t.src.x + t.src.width),
     y0 |-> Times(t.actual.y, d.dpr) + 8 * t.src.y,
     y1 |-> Times(t.actual.y, d.dpr) + 8 * (t.src.y + t.src.height)]

Disjoint(a, b) ==
    \/ a.x1 <= b.x0 \/ b.x1 <= a.x0
    \/ a.y1 <= b.y0 \/ b.y1 <= a.y0

\* C25: in a tiled element capture the page regions that two distinct tiles
\* were drawn from are disjoint, also when the scroll stopped at the document
\* boundary for one or several tiles.
C25_TilesExtractDisjointRegions ==
    \A j \in JobIds :
        data[j].kind = "element" =>
            \A i, k \in 1..Len(Tiles(j)) :
                (i < k /\ Tiles(j)[i].drawn # "skipped"
                 /\ Tiles(j)[k].drawn # "skipped")
                => Disjoint(PageRegion(Tiles(j)[i], data[j]),
                            PageRegion(Tiles(j)[k], data[j]))

\* C26: adjacent tiles leave no gap on the output surface: a tile's right
\* neighbour starts at or before its right edge, floor((c+1) * Vw * dpr) <=
\* floor(c * Vw * dpr) + ceil(visibleWidth(c) * dpr), and the tile below it
\* starts at or before its lower edge.
C26_NoGapBetweenAdjacentTiles ==
    \A j \in JobIds : \A i, k \in 1..Len(Tiles(j)) :
        LET t == Tiles(j)[i]
            u == Tiles(j)[k]
            d == data[j]
        IN  /\ (u.tileY = t.tileY /\ u.tileX = t.tileX + 1)
               => /\ u.dx <= t.dx + t.dWidth
                  /\ MathFloor(Times((t.tileX + 1) * d.viewport.width, d.dpr))
                       <= MathFloor(Times(t.tileX * d.viewport.width, d.dpr))
                          + MathCeil(Times(Min(d.viewport.width,
                                RegionWidth(d) - t.tileX * d.viewport.width),
                                d.dpr))
            /\ (u.tileX = t.tileX /\ u.tileY = t.tileY + 1)
               => u.dy <= t.dy + t.dHeight

\* C26 happens: at dpr 1.5 the third tile of a row is composited where the
\* widths are not whole pixels
C26_Witness ==
    /\ data[1].dpr = 3
    /\ Times(data[1].viewport.width, data[1].dpr) % 8 # 0
    /\ \E i \in 1..Len(Tiles(1)) : Tiles(1)[i].tileX = 2

RECURSIVE SumWidths(_, _)
SumWidths(d, n) ==
    IF n <= 0 THEN 0 ELSE SumWidths(d, n - 1) + VisibleWidth(d, n - 1)

RECURSIVE SumHeights(_, _)
SumHeights(d, n) ==
    IF n <= 0 THEN 0 ELSE SumHeights(d, n - 1) + VisibleHeight(d, n - 1)

\* the smallest n with n * b >= a
CeilOf(a, b) == CHOOSE n \in 0..(a + 1) : n * b >= a /\ (n - 1) * b < a

\* C27: a tiled job has tilesX = ceil(W / Vw) columns and tilesY =
\* ceil(H / Vh) rows; tile (c, r) has the visible size min(Vw, W - c * Vw) x
\* min(Vh, H - r * Vh), positive and no larger than the viewport; the widths
\* of a row sum to W and the row heights to H; the scroll target of a tile
\* is the region origin plus (c * Vw, r * Vh), the origin being scroll +
\* rect position for an element and (0, 0) for a full page.
C27_TilePlan ==
    \A j \in JobIds :
        js[j].mode = "tiled" =>
            LET d == data[j]
                W == RegionWidth(d)
                H == RegionHeight(d)
                origin == IF d.kind = "element"
                          THEN Pt(d.scroll.x + d.rect.x, d.scroll.y + d.rect.y)
                          ELSE Pt(0, 0)
            IN  /\ TilesX(d) = CeilOf(W, d.viewport.width)
                /\ TilesY(d) = CeilOf(H, d.viewport.height)
                /\ \A c \in 0..(TilesX(d) - 1) :
                      /\ VisibleWidth(d, c) > 0
                      /\ VisibleWidth(d, c) <= d.viewport.width
                /\ \A r \in 0..(TilesY(d) - 1) :
                      /\ VisibleHeight(d, r) > 0
                      /\ VisibleHeight(d, r) <= d.viewport.height
                /\ SumWidths(d, TilesX(d)) = W
                /\ SumHeights(d, TilesY(d)) = H
                /\ \A i \in 1..Len(Tiles(j)) :
                      LET t == Tiles(j)[i]
                      IN  /\ t.target
                               = Pt(origin.x + t.tileX * d.viewport.width,
                                    origin.y + t.tileY * d.viewport.height)
                          /\ t.sWidth = MathCeil(Times(
                                 Min(d.viewport.width,
                                     W - t.tileX * d.viewport.width), d.dpr))
                          /\ t.sHeight = MathCeil(Times(
                                 Min(d.viewport.height,
                                     H - t.tileY * d.viewport.height), d.dpr))

\* C27 happens: the last tile of a plan of several columns and rows, narrower
\* and lower than the viewport, is composited for an element away from the
\* page origin
C27_Witness ==
    /\ data[1].kind = "element"
    /\ data[1].scroll # Pt(0, 0)
    /\ TilesX(data[1]) > 1 /\ TilesY(data[1]) > 1
    /\ Len(Tiles(1)) = TilesX(data[1]) * TilesY(data[1])
    /\ VisibleWidth(data[1], TilesX(data[1]) - 1) < data[1].viewport.width

\* C28: the destination Y of every tile of row r is the sum of
\* ceil(rowHeight(k) * dpr) over the rows k < r, the same for all tiles of a
\* row, and the accumulator of the loop has that value for the row it is in.
C28_DestinationYIsCumulative ==
    \A j \in JobIds :
        /\ \A i \in 1..Len(Tiles(j)) :
              Tiles(j)[i].dy = CumulativeYAt(data[j], Tiles(j)[i].tileY)
        /\ \A i, k \in 1..Len(Tiles(j)) :
              Tiles(j)[i].tileY = Tiles(j)[k].tileY
              => Tiles(j)[i].dy = Tiles(j)[k].dy
        /\ js[j].mode = "tiled"
              => js[j].cumulativeY = CumulativeYAt(data[j], js[j].tileY)

\* C28 happens: a tile of the third row is placed where row * Vh * dpr,
\* rounded either way, would not have put it
C28_Witness ==
    \E i \in 1..Len(Tiles(1)) :
        LET t == Tiles(1)[i]
            naive == Times(t.tileY * data[1].viewport.height, data[1].dpr)
        IN  /\ t.tileY = 2
            /\ t.dy # MathFloor(naive)
            /\ t.dy # MathRound(naive)

\* C29: in a tiled job every Frame Source call comes after a completed
\* settle delay of at least 600 ms (1200 ms in debug mode), and that delay
\* after the scroll response of the same tile: the n-th call follows the
\* n-th delay, which follows the n-th scroll response, so one response and
\* one delay lie between two consecutive calls.
C29_CaptureAfterScrollAndSettle ==
    \A j \in JobIds :
        js[j].mode = "tiled" =>
            LET h == hist[j]
            IN  /\ h.captures = Len(h.settles)
                /\ Len(h.replies) - Len(h.settles) \in {0, 1}
                /\ h.scrolls >= Len(h.replies)
                /\ \A i \in 1..Len(h.settles) :
                      /\ h.settles[i].replies = i
                      /\ h.settles[i].ms >= 600
                      /\ data[j].debugMode => h.settles[i].ms = 1200

\* C29 happens: a debug-mode job has made its second Frame Source call
C29_Witness ==
    /\ js[1].mode = "tiled"
    /\ data[1].debugMode
    /\ hist[1].captures = 2
    /\ js[1].pc = "captureSent"

\* C30: a job that has ended, in success or in failure, holds no ImageBitmap
\* that was not closed and no canvas that was not released (width and
\* height set to 0).
C30_NothingUnreleasedAtJobEnd ==
    \A j \in JobIds :
        Done(j) =>
            /\ ~js[j].bitmap
            /\ js[j].canvas \in {<<>>, <<Size(0, 0)>>}

\* C31: the encoder gets a quality only for the format 'jpg', the stored
\* quality divided by 100 (95 / 100 when none is stored), and none for
\* 'png', which is also the format when none is stored; the same in the
\* viewport, full-page, tiled-element and single-element paths.
C31_QualityOnlyForJpg ==
    \A j \in JobIds : \A i \in 1..Len(hist[j].encodes) :
        LET o == hist[j].encodes[i].options
            stored == settings.quality
        IN  IF settings.format = <<"jpg">>
            THEN /\ o.type = "image/jpeg"
                 /\ Len(o.quality) = 1
                 /\ o.quality[1].den = 100
                 /\ o.quality[1].num
                      = IF stored = <<>> THEN 95 ELSE stored[1]
            ELSE /\ o.type = "image/png"
                 /\ o.quality = <<>>

\* C31 happens: a tiled element job has called the encoder with the format
\* 'png' stored and a quality stored as well
C31_Witness ==
    /\ settings.format = <<"png">>
    /\ settings.quality = <<80>>
    /\ data[1].kind = "element"
    /\ Len(hist[1].encodes) = 1
    /\ hist[1].encodes[1].mode = "tiled"

\* the region of the job lies inside the document
InsideDocument(d) ==
    /\ RegionOriginX(d) >= 0 /\ RegionOriginY(d) >= 0
    /\ RegionOriginX(d) + RegionWidth(d) <= d.documentDimensions.width
    /\ RegionOriginY(d) + RegionHeight(d) <= d.documentDimensions.height

\* viewport * dpr is a whole number of physical pixels and the frame has
\* that size
ExactFrame(d, img) ==
    /\ Times(d.viewport.width, d.dpr) % 8 = 0
    /\ Times(d.viewport.height, d.dpr) % 8 = 0
    /\ img = Size(Times(d.viewport.width, d.dpr) \div 8,
                  Times(d.viewport.height, d.dpr) \div 8)

\* C33: for a region inside the document, a scroll response that is the
\* request clamped to [0, document - viewport] and a frame of exactly
\* viewport * dpr physical pixels, the source rectangle of every tile lies
\* inside the frame as computed: the tile is drawn without the clamp.
C33_NoClampInsideDocument ==
    \A j \in JobIds : \A i \in 1..Len(Tiles(j)) :
        LET t == Tiles(j)[i]
            d == data[j]
        IN  (/\ InsideDocument(d)
             /\ ExactFrame(d, frame)
             /\ t.actual = ClampScroll(page, t.target))
            => /\ t.drawn = "full"
               /\ t.sx >= 0 /\ t.sy >= 0
               /\ t.sx + t.sWidth <= frame.width
               /\ t.sy + t.sHeight <= frame.height

\* C33 happens: a tile whose scroll request was cut short at the document
\* boundary, at a fractional offset, is drawn from inside an exact frame
C33_Witness ==
    \E i \in 1..Len(Tiles(1)) :
        LET t == Tiles(1)[i]
        IN  /\ InsideDocument(data[1]) /\ ExactFrame(data[1], frame)
            /\ t.actual = ClampScroll(page, t.target)
            /\ t.actual # t.target
            /\ Times(t.target.x - t.actual.x, data[1].dpr) % 8 # 0
            /\ t.drawn = "full"

\* C34: no tile of a tiled job is skipped: with a frame that is not empty
\* and a visible size that is positive the clamped source width and height
\* are positive, and the tile is drawn, whole or clamped.
C34_NoTileSkipped ==
    \A j \in JobIds : \A i \in 1..Len(Tiles(j)) :
        LET t == Tiles(j)[i]
        IN  (/\ frame.width > 0 /\ frame.height > 0
             /\ VisibleWidth(data[j], t.tileX) > 0
             /\ VisibleHeight(data[j], t.tileY) > 0)
            => /\ t.drawn \in {"full", "clamped"}
               /\ t.src.width > 0 /\ t.src.height > 0

\* C34 happens: a tile whose source rectangle starts beyond the right edge
\* of the frame is drawn, clamped to the last column
C34_Witness ==
    \E i \in 1..Len(Tiles(1)) :
        /\ Tiles(1)[i].sx >= frame.width
        /\ Tiles(1)[i].drawn = "clamped"
        /\ Tiles(1)[i].src.width = 1

\* C35: the destination rectangle of every tile lies inside the allocated
\* final canvas: dx + dWidth <= finalWidth and dy + dHeight <= finalHeight.
C35_DestinationInsideSurface ==
    \A j \in JobIds : \A i \in 1..Len(Tiles(j)) :
        LET t == Tiles(j)[i]
        IN  /\ t.dx + t.dWidth <= hist[j].surfaces[1].width
            /\ t.dy + t.dHeight <= hist[j].surfaces[1].height

\* C36: a single-element job that succeeded drew a source rectangle that
\* lies inside the captured frame.
C36_CropSourceInsideFrame ==
    \A j \in JobIds :
        (js[j].mode = "single" /\ js[j].result = "success") =>
            \A i \in 1..Len(hist[j].crops) :
                LET c == hist[j].crops[i]
                IN  /\ c.sx >= 0 /\ c.sy >= 0
                    /\ c.sx + c.sWidth <= frame.width
                    /\ c.sy + c.sHeight <= frame.height

\* C37: a tiled job that succeeded has made tilesX * tilesY Frame Source
\* calls and as many tile scroll requests, one more scroll request, to
\* (0,0), if it is a full page, one hideScrollbars request and one
\* showScrollbars request.
C37_RequestCountsOfSuccessfulTiledJob ==
    \A j \in JobIds :
        (js[j].mode = "tiled" /\ js[j].result = "success") =>
            LET h == hist[j]
                n == TilesX(data[j]) * TilesY(data[j])
            IN  /\ h.captures = n
                /\ h.scrolls = n
                /\ h.restores = IF data[j].kind = "fullpage" THEN 1 ELSE 0
                /\ h.hides = 1
                /\ h.shows = 1

\* C38: while the frame of a tile is being captured the page is at the
\* scroll position the scrollToPosition response reported for that tile.
C38_FrameCapturedAtReportedScroll ==
    \A j \in JobIds :
        (js[j].mode = "tiled" /\ js[j].pc = "captureSent")
            => page.scroll = js[j].scrollResponse

(***************************************************************************)
(* The popup: updateUI, the click handlers, the runtime message listener   *)
(***************************************************************************)
\* the page of a scene with no capture job in the service worker
Idle(sc) ==
    /\ data = [j \in JobIds |-> sc.data]
    /\ settings = [fullCapture |-> sc.fullCapture,
                   format |-> <<>>, quality |-> <<>>]
    /\ page = [scroll |-> sc.data.scroll, viewport |-> sc.data.viewport,
               doc |-> sc.data.documentDimensions,
               overflow |-> OriginalOverflow, scrollbarState |-> <<>>,
               border |-> FALSE, lastToggle |-> "none"]
    /\ frame = sc.frame
    /\ js = [j \in JobIds |-> NewJob("absent")]
    /\ hist = [j \in JobIds |-> NoHistory]

\* how many clicks, responses and runtime messages a popup gets
MaxEvents == 4

\* updateUI with the auto-reset of 'error' left out
UpdateUINoErrorReset(p, state) ==
    [p EXCEPT !.currentState = state,
              !.disabled = (state = "capturing"),
              !.timers = IF state = "success"
                         THEN [@ EXCEPT ![2000] = @ + 1] ELSE @]

\* updateUI(state): currentState = state, captureBtn.disabled = (state ===
\* 'capturing'), and for 'success' / 'error' a setTimeout of 2000 / 3000 ms
\* whose callback is updateUI('idle')
UpdateUI(p, state) ==
    [p EXCEPT !.currentState = state,
              !.disabled = (state = "capturing"),
              !.timers = IF state = "success"
                         THEN [@ EXCEPT ![2000] = @ + 1]
                         ELSE IF state = "error"
                         THEN [@ EXCEPT ![3000] = @ + 1] ELSE @]

\* one more click, response or message has reached the popup
Event(p, step) == [p EXCEPT !.events = @ + 1, !.lastStep = step]

\* the popup has just been opened: currentState = 'idle' and the script
\* awaits the answer to getState; no capture job is running
PopupInit ==
    /\ Idle(ScenarioScene)
    /\ inbox = [m \in MessageIds |-> NoMessage]
    /\ popup = [NoPopup EXCEPT !.open = TRUE, !.awaiting = "getState",
                               !.lastStep = "open"]

PopupStep(p) ==
    /\ popup' = p
    /\ UNCHANGED <<data, settings, page, frame, js, hist, inbox>>

\* the content script answered getState
GetStateReply ==
    /\ popup.open /\ popup.awaiting = "getState"
    /\ popup.events < MaxEvents
    /\ \E isSelecting \in BOOLEAN :
          PopupStep(Event(UpdateUI([popup EXCEPT !.awaiting = "none"],
                                   IF isSelecting THEN "selecting"
                                   ELSE "idle"), "reply"))

\* no content script in the tab: updateUI('idle')
GetStateFail ==
    /\ popup.open /\ popup.awaiting = "getState"
    /\ popup.events < MaxEvents
    /\ PopupStep(Event(UpdateUI([popup EXCEPT !.awaiting = "none"], "idle"),
                       "reply"))

\* captureBtn click: from idle, success or error updateUI('selecting') and
\* startSelection is sent; from selecting cancelSelection is sent
ClickCapture ==
    /\ popup.open /\ ~popup.disabled /\ popup.awaiting = "none"
    /\ popup.events < MaxEvents
    /\ IF popup.currentState \in {"idle", "success", "error"}
       THEN PopupStep(Event([UpdateUI(popup, "selecting")
                               EXCEPT !.awaiting = "startSelection"], "click"))
       ELSE /\ popup.currentState = "selecting"
            /\ PopupStep(Event([popup EXCEPT !.awaiting = "cancelSelection"],
                               "click"))

\* captureViewportBtn / captureFullPageBtn click: updateUI('capturing') and
\* the request is sent
ClickAction ==
    /\ popup.open /\ popup.awaiting = "none"
    /\ popup.events < MaxEvents
    /\ \E a \in {"captureViewport", "captureFullPage"} :
          PopupStep(Event([UpdateUI(popup, "capturing")
                             EXCEPT !.awaiting = a], "click"))

\* the content script answered the request: window.close(), or after
\* cancelSelection updateUI('idle')
SendReply ==
    /\ popup.open
    /\ popup.awaiting \in {"startSelection", "cancelSelection",
                           "captureViewport", "captureFullPage"}
    /\ popup.events < MaxEvents
    /\ IF popup.awaiting = "cancelSelection"
       THEN PopupStep(Event(UpdateUI([popup EXCEPT !.awaiting = "none"],
                                     "idle"), "reply"))
       ELSE PopupStep(Event([popup EXCEPT !.open = FALSE,
                                          !.awaiting = "none",
                                          !.timers = NoPopup.timers],
                            "reply"))

\* chrome.tabs.sendMessage rejected: updateUI('error', error.message)
SendFail ==
    /\ popup.open
    /\ popup.awaiting \in {"startSelection", "cancelSelection",
                           "captureViewport", "captureFullPage"}
    /\ popup.events < MaxEvents
    /\ PopupStep(Event(UpdateUI([popup EXCEPT !.awaiting = "none"], "error"),
                       "reply"))

\* chrome.runtime.onMessage: captureStarted, captureSuccess, captureError
PopupMessage ==
    /\ popup.open
    /\ popup.events < MaxEvents
    /\ \E a \in {"captureStarted", "captureSuccess", "captureError"} :
          PopupStep(Event(UpdateUI(popup,
                                   IF a = "captureStarted" THEN "capturing"
                                   ELSE IF a = "captureSuccess" THEN "success"
                                   ELSE "error"), "message"))

\* a setTimeout callback runs: updateUI('idle')
TimerFire ==
    /\ popup.open
    /\ \E d \in {2000, 3000} :
          /\ popup.timers[d] > 0
          /\ PopupStep([UpdateUI([popup EXCEPT !.timers[d] = @ - 1], "idle")
                           EXCEPT !.lastStep = "timer"])

PopupNext ==
    \/ GetStateReply
    \/ GetStateFail
    \/ ClickCapture
    \/ ClickAction
    \/ SendReply
    \/ SendFail
    \/ PopupMessage
    \/ TimerFire

PopupSpec == PopupInit /\ [][PopupNext]_vars

\* a pending setTimeout callback of an open popup runs
PopupLiveSpec == PopupSpec /\ WF_vars(TimerFire)

PendingTimers == popup.timers[2000] + popup.timers[3000]

\* C32: whenever the popup is in 'success' or 'error' and no further click,
\* response or capture message reaches it, it eventually is in 'idle' with
\* the capture button enabled; the timer that brings it back is the 2000 ms
\* one scheduled on entering 'success', the 3000 ms one for 'error'.
C32_PopupReturnsToIdle ==
    /\ \A n \in 0..MaxEvents :
          (popup.open /\ popup.currentState \in {"success", "error"}
                      /\ popup.events = n)
          ~> (\/ popup.currentState = "idle" /\ ~popup.disabled
              \/ popup.events # n)
    /\ [](popup.open /\ popup.currentState = "success"
            => popup.timers[2000] > 0)
    /\ [](popup.open /\ popup.currentState = "error"
            => popup.timers[3000] > 0)

\* C32 happens: the last pending timer of a popup that was in 'success' or
\* 'error' has run and the popup is idle with the button enabled
C32_Witness ==
    /\ popup.open /\ popup.lastStep = "timer"
    /\ popup.currentState = "idle" /\ ~popup.disabled
    /\ PendingTimers = 0
    /\ popup.events > 0

\* C40: a timer callback never changes the state of a popup that is in
\* 'selecting' or 'capturing': that state is left only by a click, a
\* response or a capture message.
C40_TimerLeavesLaterStateAlone ==
    [][(/\ popup.open
        /\ popup.currentState \in {"selecting", "capturing"}
        /\ popup'.lastStep = "timer"
        /\ popup'.timers # popup.timers)
       => /\ popup'.currentState = popup.currentState
          /\ popup'.disabled = popup.disabled]_vars

(***************************************************************************)
(* The content script: the chrome.runtime.onMessage listener               *)
(***************************************************************************)
\* the cases of the switch; "unknown" stands for every other action
ContentActions ==
    {"getState", "startSelection", "cancelSelection", "hideScrollbars",
     "showScrollbars", "scrollToPosition", "showDebugBorder",
     "hideDebugBorder", "captureViewport", "captureFullPage",
     "copyToClipboard", "unknown"}

\* the cases that reach sendResponse without an await
SyncActions ==
    {"getState", "startSelection", "cancelSelection", "hideScrollbars",
     "showScrollbars", "showDebugBorder", "hideDebugBorder", "unknown"}

\* a message the listener has received and not handled yet
Received(action, to) ==
    [NoMessage EXCEPT !.action = action, !.pc = "received", !.to = to]

ReceivedMessages ==
    {Received(a, Pt(0, 0)) : a \in ContentActions}
    \cup {Received("scrollToPosition", Pt(Px(1500), 0))}

\* one or two messages have reached the listener of the page of the
\* Scenario; no capture job is running and the popup is closed
ContentInit ==
    /\ Idle(ScenarioScene)
    /\ popup = NoPopup
    /\ \E first \in ReceivedMessages,
          second \in ReceivedMessages \cup {NoMessage} :
            inbox = [m \in MessageIds |-> IF m = 1 THEN first ELSE second]

\* sendResponse(...) is called
Respond(msg) == [msg EXCEPT !.responses = @ + 1]

\* the async function of the listener ran to its end
Settled(msg) == [msg EXCEPT !.pc = "settled", !.outcome = "fulfilled"]

\* the async function of the listener threw: its promise is rejected and
\* nobody handles the rejection
Rejected(msg) == [msg EXCEPT !.pc = "settled", !.outcome = "rejected"]

\* what the case does to the page before it answers
OnAction(p, action) ==
    IF action = "hideScrollbars" THEN OnHideScrollbars(p)
    ELSE IF action = "showScrollbars" THEN OnShowScrollbars(p)
    ELSE IF action = "showDebugBorder" THEN OnShowDebugBorder(p)
    ELSE IF action = "hideDebugBorder" THEN OnHideDebugBorder(p)
    ELSE p

\* a case without await: the work, sendResponse, break
HandleSync(m) ==
    /\ inbox[m].pc = "received"
    /\ inbox[m].action \in SyncActions
    /\ page' = OnAction(page, inbox[m].action)
    /\ inbox' = [inbox EXCEPT ![m] = Settled(Respond(@))]
    /\ UNCHANGED <<data, settings, frame, js, hist, popup>>

\* case 'scrollToPosition': window.scrollTo, then the wait for two animation
\* frames and 100 ms
ScrollStart(m) ==
    /\ inbox[m].pc = "received"
    /\ inbox[m].action = "scrollToPosition"
    /\ page' = [page EXCEPT !.scroll = ClampScroll(page, inbox[m].to)]
    /\ inbox' = [inbox EXCEPT ![m].pc = "waiting"]
    /\ UNCHANGED <<data, settings, frame, js, hist, popup>>

\* the wait is over: sendResponse({ scroll: getScrollOffsets() })
ScrollRespond(m) ==
    /\ inbox[m].pc = "waiting"
    /\ inbox[m].action = "scrollToPosition"
    /\ inbox' = [inbox EXCEPT ![m] = Settled(Respond(@))]
    /\ UNCHANGED <<data, settings, page, frame, js, hist, popup>>

\* case 'captureViewport' / 'captureFullPage': the capture function is
\* awaited; handleFullPageCapture first scrolls to the top
CaptureStart(m) ==
    /\ inbox[m].pc = "received"
    /\ inbox[m].action \in {"captureViewport", "captureFullPage"}
    /\ page' = IF inbox[m].action = "captureFullPage"
               THEN [page EXCEPT !.scroll = ClampScroll(page, Pt(0, 0))]
               ELSE page
    /\ inbox' = [inbox EXCEPT ![m].pc = "waiting"]
    /\ UNCHANGED <<data, settings, frame, js, hist, popup>>

\* the capture function returned (it catches its own errors):
\* sendResponse({ success: true })
CaptureReturn(m) ==
    /\ inbox[m].pc = "waiting"
    /\ inbox[m].action \in {"captureViewport", "captureFullPage"}
    /\ inbox' = [inbox EXCEPT ![m] = Settled(Respond(@))]
    /\ UNCHANGED <<data, settings, page, frame, js, hist, popup>>

\* case 'copyToClipboard': handleClipboardCopy is awaited
ClipboardStart(m) ==
    /\ inbox[m].pc = "received"
    /\ inbox[m].action = "copyToClipboard"
    /\ inbox' = [inbox EXCEPT ![m].pc = "waiting"]
    /\ UNCHANGED <<data, settings, page, frame, js, hist, popup>>

\* navigator.clipboard.write resolved: sendResponse({ success: true })
ClipboardDone(m) ==
    /\ inbox[m].pc = "waiting"
    /\ inbox[m].action = "copyToClipboard"
    /\ inbox' = [inbox EXCEPT ![m] = Settled(Respond(@))]
    /\ UNCHANGED <<data, settings, page, frame, js, hist, popup>>

\* fetch or navigator.clipboard.write rejected: handleClipboardCopy logs
\* and throws the error again, and the case is left before sendResponse
ClipboardReject(m) ==
    /\ inbox[m].pc = "waiting"
    /\ inbox[m].action = "copyToClipboard"
    /\ inbox' = [inbox EXCEPT ![m] = Rejected(@)]
    /\ UNCHANGED <<data, settings, page, frame, js, hist, popup>>

ContentStep(m) ==
    \/ HandleSync(m)
    \/ ScrollStart(m)
    \/ ScrollRespond(m)
    \/ CaptureStart(m)
    \/ CaptureReturn(m)
    \/ ClipboardStart(m)
    \/ ClipboardDone(m)
    \/ ClipboardReject(m)

ContentNext == \E m \in MessageIds : ContentStep(m)

ContentSpec == ContentInit /\ [][ContentNext]_vars

\* C39: the handling of a message sends at most one response, and when it
\* has come to its end, by return or by an error, exactly one.
C39_EveryMessageAnsweredOnce ==
    \A m \in MessageIds :
        /\ inbox[m].responses <= 1
        /\ inbox[m].pc = "settled" => inbox[m].responses = 1

====
